---- MODULE Spec2Model ----
(***************************************************************************)
(* Oral-fluency scoring pipeline of CALLME:                               *)
(*   callme-project_integrate_version1/backend/utils/audio/fluency.py     *)
(*                                                                         *)
(* Number representation.                                                  *)
(*   - times are integers in milliseconds;                                 *)
(*   - a feature value (SR, AR, PR, ...) is an exact number                *)
(*       [n |-> Int, d |-> positive Int, root |-> BOOLEAN]                 *)
(*     standing for n/d, or for sqrt(n/d) when root is TRUE (the sample    *)
(*     standard deviation of rate_stability);                              *)
(*   - a score (sub-score, Timing_Score, Prosody_Score, Fluency) is an     *)
(*     integer in units of 1/100000, so 1.0 is 100000 and 0.825 is 82500;  *)
(*   - thresholds of score_metric are integers in hundredths.              *)
(* The arithmetic is exact; the rounding of IEEE doubles is not modelled.  *)
(***************************************************************************)
EXTENDS Integers, Sequences, FiniteSets, TLC

\* ------------------------------------------------------------------
\* Bounds of the model
\* ------------------------------------------------------------------
MaxWords == 2

\* ------------------------------------------------------------------
\* Program constants
\* ------------------------------------------------------------------
MergeGapMs == 150
DefaultLongPauseMs == 700
DefaultMlfrPauseMs == 250
WindowMs == 5000

\* ------------------------------------------------------------------
\* Exact numbers
\* ------------------------------------------------------------------
Rat(n, d) == [n |-> n, d |-> d, root |-> FALSE]
Root(n, d) == [n |-> n, d |-> d, root |-> TRUE]
Zero == Rat(0, 1)

IsZero(v) == v.n = 0

\* v >= th/100
GE(v, th) ==
    IF v.root
    THEN (th <= 0) \/ (v.n * 10000 >= th * th * v.d)
    ELSE v.n * 100 >= th * v.d

\* v <= th/100
LE(v, th) ==
    IF v.root
    THEN (th >= 0) /\ (v.n * 10000 <= th * th * v.d)
    ELSE v.n * 100 <= th * v.d

LT(v, th) == ~GE(v, th)
GT(v, th) == ~LE(v, th)


RECURSIVE SumSeq(_)
SumSeq(s) == IF s = <<>> THEN 0 ELSE Head(s) + SumSeq(Tail(s))

Max(a, b) == IF a >= b THEN a ELSE b

\* ------------------------------------------------------------------
\* Scorer
\* ------------------------------------------------------------------
score_metric_SR(value) ==
    IF GE(value, 16000) THEN 100000
    ELSE IF GE(value, 14000) THEN 90000
    ELSE IF GE(value, 12000) THEN 70000
    ELSE IF GE(value, 10000) THEN 50000
    ELSE IF GE(value, 8000) THEN 30000
    ELSE 10000

\* the AR branch with the thresholds of the SR branch
score_metric_AR_AsSR(value) ==
    IF GE(value, 16000) THEN 100000
    ELSE IF GE(value, 14000) THEN 90000
    ELSE IF GE(value, 12000) THEN 70000
    ELSE IF GE(value, 10000) THEN 50000
    ELSE IF GE(value, 8000) THEN 30000
    ELSE 10000

score_metric_AR(value) ==
    IF GE(value, 18000) THEN 100000
    ELSE IF GE(value, 16000) THEN 90000
    ELSE IF GE(value, 14000) THEN 70000
    ELSE IF GE(value, 12000) THEN 50000
    ELSE IF GE(value, 10000) THEN 30000
    ELSE 10000

\* the PR branch with the optimal band of its comment, 0.15-0.30
score_metric_PR_WideOptimum(value) ==
    IF GE(value, 15) /\ LE(value, 30) THEN 100000
    ELSE IF GE(value, 10) /\ LT(value, 15) THEN 80000
    ELSE IF GT(value, 30) /\ LE(value, 35) THEN 60000
    ELSE IF GT(value, 35) /\ LE(value, 40) THEN 40000
    ELSE IF GT(value, 40) /\ LE(value, 50) THEN 20000
    ELSE 10000

score_metric_PR(value) ==
    IF GE(value, 15) /\ LE(value, 25) THEN 100000
    ELSE IF (GE(value, 10) /\ LT(value, 15)) \/ (GT(value, 25) /\ LE(value, 30)) THEN 80000
    ELSE IF GT(value, 30) /\ LE(value, 35) THEN 60000
    ELSE IF GT(value, 35) /\ LE(value, 40) THEN 40000
    ELSE IF GT(value, 40) /\ LE(value, 50) THEN 20000
    ELSE 10000

\* the MLFR branch with 0.0 in place of 0.1 below 3
score_metric_MLFR_ZeroFloor(value) ==
    IF GE(value, 1000) THEN 100000
    ELSE IF GE(value, 800) THEN 80000
    ELSE IF GE(value, 600) THEN 60000
    ELSE IF GE(value, 500) THEN 40000
    ELSE IF GE(value, 300) THEN 20000
    ELSE 0

score_metric_MLFR(value) ==
    IF GE(value, 1000) THEN 100000
    ELSE IF GE(value, 800) THEN 80000
    ELSE IF GE(value, 600) THEN 60000
    ELSE IF GE(value, 500) THEN 40000
    ELSE IF GE(value, 300) THEN 20000
    ELSE 10000

\* the LPF branch with the 0.4 and 0.2 rungs exchanged
score_metric_LPF_RungsSwapped(value) ==
    IF LE(value, 200) THEN 100000
    ELSE IF LE(value, 300) THEN 80000
    ELSE IF LE(value, 400) THEN 60000
    ELSE IF LE(value, 500) THEN 20000
    ELSE IF LE(value, 700) THEN 40000
    ELSE 10000

score_metric_LPF(value) ==
    IF LE(value, 200) THEN 100000
    ELSE IF LE(value, 300) THEN 80000
    ELSE IF LE(value, 400) THEN 60000
    ELSE IF LE(value, 500) THEN 40000
    ELSE IF LE(value, 700) THEN 20000
    ELSE 10000

\* the RateSD branch with < in place of <=
score_metric_RateSD_Strict(value) ==
    IF LT(value, 3000) THEN 100000
    ELSE IF LT(value, 4000) THEN 80000
    ELSE IF LT(value, 5000) THEN 60000
    ELSE IF LT(value, 6500) THEN 40000
    ELSE IF LT(value, 8000) THEN 20000
    ELSE 10000

score_metric_RateSD(value) ==
    IF LE(value, 3000) THEN 100000
    ELSE IF LE(value, 4000) THEN 80000
    ELSE IF LE(value, 5000) THEN 60000
    ELSE IF LE(value, 6500) THEN 40000
    ELSE IF LE(value, 8000) THEN 20000
    ELSE 10000

score_metric_F0_IQR(value) ==
    IF GE(value, 4000) /\ LE(value, 8000) THEN 100000
    ELSE IF (GE(value, 3000) /\ LT(value, 4000)) \/ (GT(value, 8000) /\ LE(value, 9000)) THEN 70000
    ELSE IF (GE(value, 2000) /\ LT(value, 3000)) \/ (GT(value, 9000) /\ LE(value, 10000)) THEN 50000
    ELSE 30000

score_metric_RMS_IQR(value) ==
    IF GE(value, 800) /\ LE(value, 1500) THEN 100000
    ELSE IF (GE(value, 600) /\ LT(value, 800)) \/ (GT(value, 1500) /\ LE(value, 1800)) THEN 70000
    ELSE IF (GE(value, 500) /\ LT(value, 600)) \/ (GT(value, 1800) /\ LE(value, 2000)) THEN 50000
    ELSE 30000

score_metric(value, metric_name) ==
    CASE metric_name = "SR"      -> score_metric_SR(value)
      [] metric_name = "AR"      -> score_metric_AR(value)
      [] metric_name = "PR"      -> score_metric_PR(value)
      [] metric_name = "MLFR"    -> score_metric_MLFR(value)
      [] metric_name = "LPF"     -> score_metric_LPF(value)
      [] metric_name = "RateSD"  -> score_metric_RateSD(value)
      [] metric_name = "F0_IQR"  -> score_metric_F0_IQR(value)
      [] metric_name = "RMS_IQR" -> score_metric_RMS_IQR(value)
      [] OTHER                   -> 50000

\* the level mapping with > in place of >=
level_from_score_new_Strict(s) ==
    IF s > 75000 THEN "Advanced"
    ELSE IF s > 50000 THEN "Intermediate"
    ELSE IF s > 30000 THEN "Basic"
    ELSE "Below Basic"

level_from_score_new(s) ==
    IF s >= 75000 THEN "Advanced"
    ELSE IF s >= 50000 THEN "Intermediate"
    ELSE IF s >= 30000 THEN "Basic"
    ELSE "Below Basic"

\* ------------------------------------------------------------------
\* Voice-activity segmenter
\* ------------------------------------------------------------------
\* tuple order of Python on (start, end) pairs
SegLess(a, b) == a[1] < b[1] \/ (a[1] = b[1] /\ a[2] < b[2])

RECURSIVE InsertSeg(_, _)
InsertSeg(x, s) ==
    IF s = <<>> THEN <<x>>
    ELSE IF SegLess(x, Head(s)) THEN <<x>> \o s
    ELSE <<Head(s)>> \o InsertSeg(x, Tail(s))

\* segments.sort()
RECURSIVE SortSegs(_)
SortSegs(s) == IF s = <<>> THEN <<>> ELSE InsertSeg(Head(s), SortSegs(Tail(s)))

\* the merge loop with its else dropped: the region is appended after every merge too
MergeStep_NoElse(merged, seg) ==
    IF merged = <<>> THEN <<seg>>
    ELSE LET last == merged[Len(merged)] IN
         IF seg[1] - last[2] < MergeGapMs
         THEN Append([merged EXCEPT ![Len(merged)] = <<last[1], Max(last[2], seg[2])>>], seg)
         ELSE Append(merged, seg)

\* the merge loop with <= in place of <: regions exactly MergeGapMs apart are merged
MergeStep_Inclusive(merged, seg) ==
    IF merged = <<>> THEN <<seg>>
    ELSE LET last == merged[Len(merged)] IN
         IF seg[1] - last[2] <= MergeGapMs
         THEN [merged EXCEPT ![Len(merged)] = <<last[1], Max(last[2], seg[2])>>]
         ELSE Append(merged, seg)

\* one iteration of the merge loop: merged is the list built so far, seg the next region
MergeStep(merged, seg) ==
    IF merged = <<>> THEN <<seg>>
    ELSE LET last == merged[Len(merged)] IN
         IF seg[1] - last[2] < MergeGapMs
         THEN [merged EXCEPT ![Len(merged)] = <<last[1], Max(last[2], seg[2])>>]
         ELSE Append(merged, seg)

RECURSIVE MergeLoop(_, _)
MergeLoop(merged, rest) ==
    IF rest = <<>> THEN merged
    ELSE MergeLoop(MergeStep(merged, Head(rest)), Tail(rest))

\* run_pyannote_vad once the detector has returned its regions
run_pyannote_vad(segments) == MergeLoop(<<>>, SortSegs(segments))

RECURSIVE GapSilences(_)
GapSilences(segs) ==
    IF Len(segs) < 2 THEN <<>>
    ELSE (IF segs[2][1] > segs[1][2] THEN <<<<segs[1][2], segs[2][1]>>>> ELSE <<>>)
         \o GapSilences(Tail(segs))

\* silences_from_speech without its closing "if segs[-1][1] < total"
silences_from_speech_NoTrailing(segs, total) ==
    IF segs = <<>> THEN <<<<0, total>>>>
    ELSE (IF segs[1][1] > 0 THEN <<<<0, segs[1][1]>>>> ELSE <<>>)
         \o GapSilences(segs)

silences_from_speech(segs, total) ==
    IF segs = <<>> THEN <<<<0, total>>>>
    ELSE (IF segs[1][1] > 0 THEN <<<<0, segs[1][1]>>>> ELSE <<>>)
         \o GapSilences(segs)
         \o (IF segs[Len(segs)][2] < total THEN <<<<segs[Len(segs)][2], total>>>> ELSE <<>>)

\* ------------------------------------------------------------------
\* Features
\* ------------------------------------------------------------------
\* durations lie on the millisecond grid, so dur_sec <= 1e-6 is dur <= 0
words_per_min(n_words, dur) ==
    IF dur <= 0 THEN Zero ELSE Rat(n_words * 60000, dur)

RECURSIVE articulation_time(_)
articulation_time(speech_segs) ==
    IF speech_segs = <<>> THEN 0
    ELSE (Head(speech_segs)[2] - Head(speech_segs)[1]) + articulation_time(Tail(speech_segs))

RECURSIVE CountLong(_, _)
CountLong(silences, min_long) ==
    IF silences = <<>> THEN 0
    ELSE (IF Head(silences)[2] - Head(silences)[1] >= min_long THEN 1 ELSE 0)
         + CountLong(Tail(silences), min_long)

long_pause_freq(silences, min_long, total) ==
    IF total <= 0 THEN Zero ELSE Rat(CountLong(silences, min_long) * 60000, total)

\* sorted(words, key=lambda w: w.start) is stable: w goes after the words
\* whose start is <= its own
RECURSIVE InsertWord(_, _)
InsertWord(w, s) ==
    IF s = <<>> THEN <<w>>
    ELSE IF w.start < Head(s).start THEN <<w>> \o s
    ELSE <<Head(s)>> \o InsertWord(w, Tail(s))

RECURSIVE SortWordsFrom(_, _)
SortWordsFrom(acc, rest) ==
    IF rest = <<>> THEN acc
    ELSE SortWordsFrom(InsertWord(Head(rest), acc), Tail(rest))

\* mlfr without its sort: the words are taken in the order supplied
SortWords_AsSupplied(words) == words

SortWords(words) == SortWordsFrom(<<>>, words)

\* the loop of mlfr with gap > pause_thr in place of gap >= pause_thr
RECURSIVE MlfrRuns_Strict(_, _, _, _, _)
MlfrRuns_Strict(ws, i, runs, run_len, pause_thr) ==
    IF i > Len(ws) THEN Append(runs, run_len)
    ELSE LET gap == Max(0, ws[i].start - ws[i - 1].end) IN
         IF gap > pause_thr
         THEN MlfrRuns_Strict(ws, i + 1, Append(runs, run_len), 1, pause_thr)
         ELSE MlfrRuns_Strict(ws, i + 1, runs, run_len + 1, pause_thr)

\* the loop of mlfr over i = from .. len(ws): returns the list of run lengths
RECURSIVE MlfrRuns(_, _, _, _, _)
MlfrRuns(ws, i, runs, run_len, pause_thr) ==
    IF i > Len(ws) THEN Append(runs, run_len)
    ELSE LET gap == Max(0, ws[i].start - ws[i - 1].end) IN
         IF gap >= pause_thr
         THEN MlfrRuns(ws, i + 1, Append(runs, run_len), 1, pause_thr)
         ELSE MlfrRuns(ws, i + 1, runs, run_len + 1, pause_thr)

\* mlfr without its "if not words" guard: the empty list yields runs = [1]
mlfr_NoEmptyGuard(words, pause_thr) ==
    LET runs == MlfrRuns(SortWords(words), 2, <<>>, 1, pause_thr)
    IN  Rat(SumSeq(runs), Len(runs))

mlfr(words, pause_thr) ==
    IF words = <<>> THEN Zero
    ELSE LET runs == MlfrRuns(SortWords(words), 2, <<>>, 1, pause_thr)
         IN  Rat(SumSeq(runs), Len(runs))

RECURSIVE MaxEnd(_)
MaxEnd(words) ==
    IF Len(words) = 1 THEN words[1].end
    ELSE Max(words[1].end, MaxEnd(Tail(words)))

\* len(np.arange(t0, t1 + window, window)) = ceil((t1 + window - t0) / window)
NumBins(t0, t1, window) == ((t1 + window - t0) + window - 1) \div window

\* the inner while loop of one window [s, e): returns <<c, wi>>
RECURSIVE WindowScan(_, _, _, _, _)
WindowScan(words, wi, c, s, e) ==
    IF wi < Len(words) /\ words[wi + 1].start < e
    THEN WindowScan(words, wi + 1, IF words[wi + 1].end > s THEN c + 1 ELSE c, s, e)
    ELSE <<c, wi>>

\* the for loop over the windows b = 0 .. nwin-1: returns the list of word counts
RECURSIVE WindowCounts(_, _, _, _, _, _)
WindowCounts(words, t0, window, b, nwin, wi) ==
    IF b >= nwin THEN <<>>
    ELSE LET r == WindowScan(words, wi, 0, t0 + b * window, t0 + (b + 1) * window)
         IN  <<r[1]>> \o WindowCounts(words, t0, window, b + 1, nwin, Max(0, r[2] - 5))

RECURSIVE SumSq(_)
SumSq(s) == IF s = <<>> THEN 0 ELSE Head(s) * Head(s) + SumSq(Tail(s))

\* np.std(wpm_list, ddof=1) where wpm_list[i] = counts[i] / (window/60):
\* variance = (k*sum(x^2) - sum(x)^2) / (k*(k-1)) with x = counts * 60000/window
SampleStd(counts, window) ==
    LET k == Len(counts)
    IN  Root((k * SumSq(counts) - SumSeq(counts) * SumSeq(counts)) * (60000 \div window) * (60000 \div window),
             k * (k - 1))

rate_stability(words, window) ==
    IF words = <<>> THEN Zero
    ELSE LET t0 == words[1].start
             t1 == MaxEnd(words)
         IN  IF t1 - t0 < window THEN Zero
             ELSE LET counts == WindowCounts(words, t0, window, 0, NumBins(t0, t1, window) - 1, 0)
                  IN  IF Len(counts) >= 2 THEN SampleStd(counts, window) ELSE Zero

\* ------------------------------------------------------------------
\* Inputs: what the file system and the three external models can deliver
\* ------------------------------------------------------------------
\* what sf.info finds at the path
AudioKinds == {"missing", "corrupt", "zero_frames", "valid"}

\* frames / samplerate of a valid, non-empty file
Durations == {1000, 6000}

\* instants at which the detector's regions start and end
VadGrid == {0, 200, 300, 1000, 1150, 6000}

RECURSIVE Ascending(_)
Ascending(S) ==
    IF S = {} THEN <<>>
    ELSE LET m == CHOOSE x \in S : \A y \in S : x <= y
         IN  <<m>> \o Ascending(S \ {m})

RECURSIVE PairUp(_)
PairUp(s) ==
    IF Len(s) < 2 THEN <<>>
    ELSE <<<<s[1], s[2]>>>> \o PairUp(SubSeq(s, 3, Len(s)))

\* result.get_timeline().support(): disjoint regions in time order; the
\* detector may overshoot the end of the clip by one frame hop
DetectorTimelines(total) ==
    { PairUp(Ascending(S)) :
        S \in { T \in SUBSET { t \in VadGrid : t <= total + MergeGapMs } : Cardinality(T) % 2 = 0 } }

\* words the recognizer can emit (text already stripped); the instants are
\* multiples of 1/8 s, which doubles represent exactly
WordPool ==
    { [text |-> "the",  start |-> 0,    end |-> 250],
      [text |-> "cat",  start |-> 375,  end |-> 500],
      [text |-> "sat",  start |-> 750,  end |-> 1000],
      [text |-> "...",  start |-> 1000, end |-> 1000],
      [text |-> "down", start |-> 5500, end |-> 5875] }

Transcripts(total) ==
    UNION { [1..k -> { w \in WordPool : w.end <= total }] : k \in 0..MaxWords }

\* any(ch.isalpha() for ch in w.text)
HasAlpha(text) == text \notin {"...", "?", "-"}

\* [w for w in words if any(ch.isalpha() for ch in w.text)]
RECURSIVE CleanWords(_)
CleanWords(words) ==
    IF words = <<>> THEN <<>>
    ELSE (IF HasAlpha(Head(words).text) THEN <<Head(words)>> ELSE <<>>) \o CleanWords(Tail(words))

\* (F0_IQR, RMS_IQR) pairs the prosody analyzer can return
ProsodyPool ==
    { <<Zero, Zero>>,
      <<Rat(55, 1), Rat(105, 10)>>,
      <<Rat(35, 1), Rat(19, 1)>>,
      <<Rat(120, 1), Rat(3, 1)>> }

\* ------------------------------------------------------------------
\* State
\* ------------------------------------------------------------------
VARIABLES
    entry,          \* function the caller invokes
    pc,             \* stage of the evaluation
    audio,          \* what is stored at the path
    use_prosody, long_pause_sec, mlfr_pause_sec,    \* arguments
    total, speech, silences, t_speech, pr,          \* locals of process_one
    words_clean, n_words, feats,
    bound,          \* names of the locals that have been assigned
    called,         \* external models invoked so far
    failed,         \* external models that raised
    exc,            \* exception propagated to the caller, "" if none
    result,         \* record returned to the caller
    fn_in,          \* arguments of a direct call of one of the pure functions
    fn_out,         \* what that call returned
    requests,       \* the /fluency requests the server is handling
    tmp_dir         \* what each path under /tmp holds

vars == <<entry, pc, audio, use_prosody, long_pause_sec, mlfr_pause_sec,
          total, speech, silences, t_speech, pr, words_clean, n_words, feats,
          bound, called, failed, exc, result, fn_in, fn_out, requests, tmp_dir>>

\* the variables of a direct call of a pure function
fnvars == <<fn_in, fn_out>>

\* the variables of the request handler
apivars == <<requests, tmp_dir>>

NoFeats == [SR |-> Zero, AR |-> Zero, PR |-> Zero, LPF |-> Zero, MLFR |-> Zero,
            RateSD |-> Zero, F0_IQR |-> Zero, RMS_IQR |-> Zero]

NoResult == [Pending |-> TRUE]

Init ==
    /\ entry \in {"process_one", "evaluate_fluency"}
    /\ pc = "Start"
    /\ audio \in AudioKinds
    /\ use_prosody \in BOOLEAN
    /\ long_pause_sec = DefaultLongPauseMs
    /\ mlfr_pause_sec = DefaultMlfrPauseMs
    /\ total = 0
    /\ speech = <<>>
    /\ silences = <<>>
    /\ t_speech = 0
    /\ pr = Zero
    /\ words_clean = <<>>
    /\ n_words = 0
    /\ feats = NoFeats
    /\ bound = {}
    /\ called = {}
    /\ failed = {}
    /\ exc = ""
    /\ result = NoResult
    /\ fn_in = <<>>
    /\ fn_out = <<>>
    /\ requests = <<>>
    /\ tmp_dir = <<>>

\* ------------------------------------------------------------------
\* process_one, stage by stage
\* ------------------------------------------------------------------
\* the caller invokes process_one(path, ...)
Call ==
    /\ pc = "Start"
    /\ entry = "process_one"
    /\ pc' = "LoadAudio"
    /\ UNCHANGED fnvars
    /\ UNCHANGED apivars
    /\ UNCHANGED <<entry, audio, use_prosody, long_pause_sec, mlfr_pause_sec,
                   total, speech, silences, t_speech, pr, words_clean, n_words, feats,
                   bound, called, failed, exc, result>>

EmptyAudioResult ==
    [Fluency |-> 0, Level |-> "Below Basic", Error |-> "Audio file is empty or invalid."]

\* LoadAudio without the "if total == 0" return, as in the first process_one
LoadAudio_NoEmptyCheck ==
    /\ pc = "LoadAudio"
    /\ \/ /\ audio \in {"missing", "corrupt"}
          /\ pc' = "Raised"
          /\ exc' = "LibsndfileError"
          /\ UNCHANGED <<total, result>>
       \/ /\ audio = "zero_frames"
          /\ total' = 0
          /\ pc' = "DetectVoiceActivity"
          /\ UNCHANGED <<exc, result>>
       \/ /\ audio = "valid"
          /\ total' \in Durations
          /\ pc' = "DetectVoiceActivity"
          /\ UNCHANGED <<exc, result>>
    /\ bound' = bound \cup {"total"}
    /\ UNCHANGED fnvars
    /\ UNCHANGED apivars
    /\ UNCHANGED <<entry, audio, use_prosody, long_pause_sec, mlfr_pause_sec,
                   speech, silences, t_speech, pr, words_clean, n_words, feats,
                   called, failed>>

\* total = duration_from_path(path); if total == 0: return {...}
\* sf.info raises on a path that is missing or is not a sound file, and
\* nothing around the call catches it
LoadAudio ==
    /\ pc = "LoadAudio"
    /\ \/ /\ audio \in {"missing", "corrupt"}
          /\ pc' = "Raised"
          /\ exc' = "LibsndfileError"
          /\ UNCHANGED <<total, result>>
       \/ /\ audio = "zero_frames"
          /\ total' = 0
          /\ result' = EmptyAudioResult
          /\ pc' = "Error"
          /\ UNCHANGED exc
       \/ /\ audio = "valid"
          /\ total' \in Durations
          /\ pc' = "DetectVoiceActivity"
          /\ UNCHANGED <<exc, result>>
    /\ bound' = bound \cup {"total"}
    /\ UNCHANGED fnvars
    /\ UNCHANGED apivars
    /\ UNCHANGED <<entry, audio, use_prosody, long_pause_sec, mlfr_pause_sec,
                   speech, silences, t_speech, pr, words_clean, n_words, feats,
                   called, failed>>

\* pr with t_speech / total in place of (total - t_speech) / total
pause_ratio_SpeechShare(total_, t_speech_) ==
    IF total_ <= 0 THEN Zero ELSE Rat(t_speech_, total_)

\* pr = 0.0 if total <= 1e-6 else (total - t_speech) / total
pause_ratio(total_, t_speech_) ==
    IF total_ <= 0 THEN Zero ELSE Rat(total_ - t_speech_, total_)

\* the try block of the VAD stage runs to its end
VadOk ==
    /\ pc = "DetectVoiceActivity"
    /\ \E timeline \in DetectorTimelines(total) :
          LET sp == run_pyannote_vad(timeline)
              ts == articulation_time(sp)
          IN  /\ speech' = sp
              /\ silences' = silences_from_speech(sp, total)
              /\ t_speech' = ts
              /\ pr' = pause_ratio(total, ts)
    /\ bound' = bound \cup {"speech", "silences", "t_speech", "pr"}
    /\ called' = called \cup {"vad"}
    /\ pc' = "TranscribeWords"
    /\ UNCHANGED fnvars
    /\ UNCHANGED apivars
    /\ UNCHANGED <<entry, audio, use_prosody, long_pause_sec, mlfr_pause_sec,
                   total, words_clean, n_words, feats, failed, exc, result>>

\* run_pyannote_vad raises: the except branch assigns t_speech and pr only
VadFails ==
    /\ pc = "DetectVoiceActivity"
    /\ t_speech' = total
    /\ pr' = Zero
    /\ bound' = bound \cup {"t_speech", "pr"}
    /\ called' = called \cup {"vad"}
    /\ failed' = failed \cup {"vad"}
    /\ pc' = "TranscribeWords"
    /\ UNCHANGED fnvars
    /\ UNCHANGED apivars
    /\ UNCHANGED <<entry, audio, use_prosody, long_pause_sec, mlfr_pause_sec,
                   total, speech, silences, words_clean, n_words, feats, exc, result>>

AsrOk ==
    /\ pc = "TranscribeWords"
    /\ \E words \in Transcripts(total) :
          /\ words_clean' = CleanWords(words)
          /\ n_words' = Len(CleanWords(words))
    /\ bound' = bound \cup {"words", "words_clean", "n_words"}
    /\ called' = called \cup {"asr"}
    /\ pc' = "ExtractFeatures"
    /\ UNCHANGED fnvars
    /\ UNCHANGED apivars
    /\ UNCHANGED <<entry, audio, use_prosody, long_pause_sec, mlfr_pause_sec,
                   total, speech, silences, t_speech, pr, feats, failed, exc, result>>

AsrFails ==
    /\ pc = "TranscribeWords"
    /\ n_words' = 0
    /\ words_clean' = <<>>
    /\ bound' = bound \cup {"words_clean", "n_words"}
    /\ called' = called \cup {"asr"}
    /\ failed' = failed \cup {"asr"}
    /\ pc' = "ExtractFeatures"
    /\ UNCHANGED fnvars
    /\ UNCHANGED apivars
    /\ UNCHANGED <<entry, audio, use_prosody, long_pause_sec, mlfr_pause_sec,
                   total, speech, silences, t_speech, pr, feats, exc, result>>

\* the timing features with lpf computed from the silences whatever n_words is
TimingFeats_LpfUnguarded ==
    [SR     |-> words_per_min(n_words, total),
     AR     |-> IF t_speech > 0 THEN words_per_min(n_words, t_speech) ELSE Zero,
     PR     |-> pr,
     LPF    |-> long_pause_freq(silences, long_pause_sec, total),
     MLFR   |-> mlfr(words_clean, mlfr_pause_sec),
     RateSD |-> rate_stability(words_clean, WindowMs)]

\* the timing features with the durations of sr_wpm and ar_wpm exchanged
TimingFeats_RatesSwapped ==
    [SR     |-> IF t_speech > 0 THEN words_per_min(n_words, t_speech) ELSE Zero,
     AR     |-> words_per_min(n_words, total),
     PR     |-> pr,
     LPF    |-> IF n_words > 0 THEN long_pause_freq(silences, long_pause_sec, total) ELSE Zero,
     MLFR   |-> mlfr(words_clean, mlfr_pause_sec),
     RateSD |-> rate_stability(words_clean, WindowMs)]

\* the five timing features; silences is read only when n_words > 0
TimingFeats ==
    [SR     |-> words_per_min(n_words, total),
     AR     |-> IF t_speech > 0 THEN words_per_min(n_words, t_speech) ELSE Zero,
     PR     |-> pr,
     LPF    |-> IF n_words > 0 THEN long_pause_freq(silences, long_pause_sec, total) ELSE Zero,
     MLFR   |-> mlfr(words_clean, mlfr_pause_sec),
     RateSD |-> rate_stability(words_clean, WindowMs)]

MakeFeats(f0_iqr, rms_iqr) ==
    [SR |-> TimingFeats.SR, AR |-> TimingFeats.AR, PR |-> TimingFeats.PR,
     LPF |-> TimingFeats.LPF, MLFR |-> TimingFeats.MLFR, RateSD |-> TimingFeats.RateSD,
     F0_IQR |-> f0_iqr, RMS_IQR |-> rms_iqr]

\* reading the local silences, which the failed VAD stage never assigned
FeaturesRaise ==
    /\ pc = "ExtractFeatures"
    /\ n_words > 0
    /\ "silences" \notin bound
    /\ pc' = "Raised"
    /\ exc' = "UnboundLocalError"
    /\ UNCHANGED fnvars
    /\ UNCHANGED apivars
    /\ UNCHANGED <<entry, audio, use_prosody, long_pause_sec, mlfr_pause_sec,
                   total, speech, silences, t_speech, pr, words_clean, n_words, feats,
                   bound, called, failed, result>>

\* feature calculation without prosody, or with a prosody analysis that returns
FeaturesOk ==
    /\ pc = "ExtractFeatures"
    /\ (n_words > 0) => ("silences" \in bound)
    /\ \/ /\ ~use_prosody
          /\ feats' = MakeFeats(Zero, Zero)
          /\ UNCHANGED called
       \/ /\ use_prosody
          /\ \E p \in ProsodyPool : feats' = MakeFeats(p[1], p[2])
          /\ called' = called \cup {"prosody"}
    /\ bound' = bound \cup {"feats"}
    /\ pc' = "Score"
    /\ UNCHANGED fnvars
    /\ UNCHANGED apivars
    /\ UNCHANGED <<entry, audio, use_prosody, long_pause_sec, mlfr_pause_sec,
                   total, speech, silences, t_speech, pr, words_clean, n_words,
                   failed, exc, result>>

\* the prosody call without its try/except, as in the first process_one
ProsodyFails_Propagates ==
    /\ pc = "ExtractFeatures"
    /\ (n_words > 0) => ("silences" \in bound)
    /\ use_prosody
    /\ called' = called \cup {"prosody"}
    /\ failed' = failed \cup {"prosody"}
    /\ pc' = "Raised"
    /\ exc' = "Exception"
    /\ UNCHANGED fnvars
    /\ UNCHANGED apivars
    /\ UNCHANGED <<entry, audio, use_prosody, long_pause_sec, mlfr_pause_sec,
                   total, speech, silences, t_speech, pr, words_clean, n_words, feats,
                   bound, result>>

\* prosody_iqrs raises: f0_iqr and rms_iqr keep their 0.0
ProsodyFails ==
    /\ pc = "ExtractFeatures"
    /\ (n_words > 0) => ("silences" \in bound)
    /\ use_prosody
    /\ feats' = MakeFeats(Zero, Zero)
    /\ called' = called \cup {"prosody"}
    /\ failed' = failed \cup {"prosody"}
    /\ bound' = bound \cup {"feats"}
    /\ pc' = "Score"
    /\ UNCHANGED fnvars
    /\ UNCHANGED apivars
    /\ UNCHANGED <<entry, audio, use_prosody, long_pause_sec, mlfr_pause_sec,
                   total, speech, silences, t_speech, pr, words_clean, n_words,
                   exc, result>>

\* timing composite with the MLFR and LPF weights exchanged
timing_score_Swapped(f) ==
    ( 25 * score_metric(f.SR, "SR")
    + 20 * score_metric(f.AR, "AR")
    + 15 * score_metric(f.PR, "PR")
    + 10 * score_metric(f.MLFR, "MLFR")
    + 20 * score_metric(f.LPF, "LPF")
    + 10 * score_metric(f.RateSD, "RateSD") ) \div 100

\* the weights of the timing composite, in hundredths
TimingWeights == [SR |-> 25, AR |-> 20, PR |-> 15, MLFR |-> 20, LPF |-> 10, RateSD |-> 10]

timing_score(f) ==
    ( TimingWeights.SR     * score_metric(f.SR, "SR")
    + TimingWeights.AR     * score_metric(f.AR, "AR")
    + TimingWeights.PR     * score_metric(f.PR, "PR")
    + TimingWeights.MLFR   * score_metric(f.MLFR, "MLFR")
    + TimingWeights.LPF    * score_metric(f.LPF, "LPF")
    + TimingWeights.RateSD * score_metric(f.RateSD, "RateSD") ) \div 100

prosody_score(f) ==
    (50 * score_metric(f.F0_IQR, "F0_IQR") + 50 * score_metric(f.RMS_IQR, "RMS_IQR")) \div 100

\* final composition with the 0.70 and 0.30 exchanged
fluency_score_Swapped(f, prosody) ==
    IF prosody
    THEN (30 * timing_score(f) + 70 * prosody_score(f)) \div 100
    ELSE timing_score(f)

fluency_score(f, prosody) ==
    IF prosody
    THEN (70 * timing_score(f) + 30 * prosody_score(f)) \div 100
    ELSE timing_score(f)

\* the record with the level taken from the timing score
ScoreRecord_LevelOfTiming(f, prosody, n, dur) ==
    [Fluency       |-> fluency_score(f, prosody),
     Level         |-> level_from_score_new(timing_score(f)),
     Timing_Score  |-> timing_score(f),
     Prosody_Score |-> IF prosody THEN <<prosody_score(f)>> ELSE <<>>,
     N_words       |-> n,
     Duration      |-> dur,
     SR |-> f.SR, AR |-> f.AR, PR |-> f.PR, LPF |-> f.LPF, MLFR |-> f.MLFR,
     RateSD |-> f.RateSD, F0_IQR |-> f.F0_IQR, RMS_IQR |-> f.RMS_IQR]

\* Prosody_Score: <<x>> is the number x, <<>> is None
ScoreRecord(f, prosody, n, dur) ==
    [Fluency       |-> fluency_score(f, prosody),
     Level         |-> level_from_score_new(fluency_score(f, prosody)),
     Timing_Score  |-> timing_score(f),
     Prosody_Score |-> IF prosody THEN <<prosody_score(f)>> ELSE <<>>,
     N_words       |-> n,
     Duration      |-> dur,
     SR |-> f.SR, AR |-> f.AR, PR |-> f.PR, LPF |-> f.LPF, MLFR |-> f.MLFR,
     RateSD |-> f.RateSD, F0_IQR |-> f.F0_IQR, RMS_IQR |-> f.RMS_IQR]

Score ==
    /\ pc = "Score"
    /\ result' = ScoreRecord(feats, use_prosody, n_words, total)
    /\ pc' = "Done"
    /\ UNCHANGED fnvars
    /\ UNCHANGED apivars
    /\ UNCHANGED <<entry, audio, use_prosody, long_pause_sec, mlfr_pause_sec,
                   total, speech, silences, t_speech, pr, words_clean, n_words, feats,
                   bound, called, failed, exc>>

\* ------------------------------------------------------------------
\* evaluate_fluency: the entry point, which returns a fixed record
\* ------------------------------------------------------------------
MockResult ==
    [Fluency       |-> 78000,
     Level         |-> "Advanced",
     Timing_Score  |-> 85000,
     Prosody_Score |-> <<65000>>,
     N_words       |-> 55,
     Duration      |-> 25400,
     SR |-> Rat(1299, 10), AR |-> Rat(1655, 10), PR |-> Rat(21, 100),
     LPF |-> Rat(23, 10), MLFR |-> Rat(85, 10), RateSD |-> Rat(350, 10),
     F0_IQR |-> Rat(550, 10), RMS_IQR |-> Rat(105, 10)]

evaluate_fluency ==
    /\ pc = "Start"
    /\ entry = "evaluate_fluency"
    /\ result' = MockResult
    /\ pc' = "Done"
    /\ UNCHANGED fnvars
    /\ UNCHANGED apivars
    /\ UNCHANGED <<entry, audio, use_prosody, long_pause_sec, mlfr_pause_sec,
                   total, speech, silences, t_speech, pr, words_clean, n_words, feats,
                   bound, called, failed, exc>>

Next ==
    \/ Call
    \/ LoadAudio
    \/ VadOk
    \/ VadFails
    \/ AsrOk
    \/ AsrFails
    \/ FeaturesRaise
    \/ FeaturesOk
    \/ ProsodyFails
    \/ Score
    \/ evaluate_fluency

Spec == Init /\ [][Next]_vars

Returned == pc \in {"Done", "Error"}
Terminated == pc \in {"Done", "Error", "Raised"}

\* ==================================================================
\* Properties
\* ==================================================================
ResultKeys ==
    {"Fluency", "Level", "Timing_Score", "Prosody_Score", "N_words", "Duration",
     "SR", "AR", "PR", "LPF", "MLFR", "RateSD", "F0_IQR", "RMS_IQR"}

\* C1: an evaluation never raises to its caller, whatever the audio input and
\* whichever of the external models fail.
C1_NeverRaises == pc # "Raised" /\ exc = ""

\* C2: when the voice-activity detector raises, the evaluation still returns a
\* complete record with PR = 0.0, whatever the recognizer returns afterwards.
C2_VadFailureStillReturns ==
    ("vad" \in failed /\ Terminated) =>
        /\ pc = "Done"
        /\ exc = ""
        /\ DOMAIN result = ResultKeys
        /\ IsZero(result.PR)

\* C3: for the end-to-end scenario with prosody disabled, the record returned by
\* the entry point evaluate_fluency has Timing_Score 0.825 (the value of the
\* threshold table and weights), Fluency = Timing_Score and the Level of that Fluency.
ScenarioFeats ==
    [SR |-> Rat(1299, 10), AR |-> Rat(1655, 10), PR |-> Rat(21, 100),
     LPF |-> Rat(23, 10), MLFR |-> Rat(85, 10), RateSD |-> Rat(350, 10)]

C3_EndToEndScenario ==
    ( /\ entry = "evaluate_fluency"
      /\ pc = "Done"
      /\ ~use_prosody
      /\ result.N_words = 55
      /\ result.Duration = 25400
      /\ \A k \in DOMAIN ScenarioFeats : result[k] = ScenarioFeats[k] ) =>
        /\ result.Timing_Score = 82500
        /\ result.Timing_Score * 100 =
              25 * score_metric(result.SR, "SR") + 20 * score_metric(result.AR, "AR")
            + 15 * score_metric(result.PR, "PR") + 20 * score_metric(result.MLFR, "MLFR")
            + 10 * score_metric(result.LPF, "LPF") + 10 * score_metric(result.RateSD, "RateSD")
        /\ result.Fluency = result.Timing_Score
        /\ result.Level = level_from_score_new(result.Fluency)

\* C4: for an audio input of zero duration, process_one returns Fluency = 0.0 and
\* Level = "Below Basic" without raising and without invoking the voice-activity
\* detector or the speech recognizer.
C4_EmptyAudio ==
    (entry = "process_one" /\ audio = "zero_frames") =>
        /\ pc # "Raised"
        /\ exc = ""
        /\ called \cap {"vad", "asr"} = {}
        /\ pc \in {"Start", "LoadAudio", "Error"}
        /\ (pc = "Error" => /\ total = 0
                            /\ result.Fluency = 0
                            /\ result.Level = "Below Basic")

C4_Witness ==
    entry = "process_one" /\ audio = "zero_frames" /\ pc = "Error" /\ "total" \in bound

\* C5: every returned record has exactly the fourteen keys of a ScoreResult, on
\* every path.
C5_SameShape == Returned => DOMAIN result = ResultKeys

\* C6: when the speech recognizer raises, the evaluation does not abort; the
\* returned record has N_words = 0 and SR, AR, MLFR, RateSD all 0.0, and carries
\* the Fluency and Level that scoring produced.
C6_AsrFailure ==
    ("asr" \in failed) =>
        /\ pc \in {"ExtractFeatures", "Score", "Done"}
        /\ exc = ""
        /\ (pc = "Done" =>
              /\ result.N_words = 0
              /\ IsZero(result.SR) /\ IsZero(result.AR)
              /\ IsZero(result.MLFR) /\ IsZero(result.RateSD)
              /\ {"Fluency", "Level"} \subseteq DOMAIN result
              /\ result.Fluency > 0
              /\ result.Level \in {"Advanced", "Intermediate", "Basic", "Below Basic"})

C6_Witness == "asr" \in failed /\ pc = "Done" /\ "vad" \in failed

\* C7: when prosody is requested and the analyzer raises, the evaluation goes on
\* with F0_IQR = RMS_IQR = 0.0 and returns a record with a numeric Prosody_Score;
\* when prosody is not requested both features are 0.0 too.
C7_ProsodyFailure ==
    /\ ("prosody" \in failed) =>
          /\ use_prosody
          /\ pc \in {"Score", "Done"}
          /\ exc = ""
          /\ IsZero(feats.F0_IQR) /\ IsZero(feats.RMS_IQR)
          /\ (pc = "Done" =>
                /\ IsZero(result.F0_IQR) /\ IsZero(result.RMS_IQR)
                /\ Len(result.Prosody_Score) = 1
                /\ result.Prosody_Score[1] \in 0..100000)
    /\ (entry = "process_one" /\ ~use_prosody) =>
          /\ "prosody" \notin called
          /\ IsZero(feats.F0_IQR) /\ IsZero(feats.RMS_IQR)
          /\ (pc = "Done" => IsZero(result.F0_IQR) /\ IsZero(result.RMS_IQR))

C7_Witness == "prosody" \in failed /\ pc = "Done" /\ n_words > 0

\* C8: Error is entered only from LoadAudio; after DetectVoiceActivity or
\* TranscribeWords, failed or not, the run proceeds to the next stage and ends in Done.
C8_StageOrder ==
    [][ /\ (pc' \in {"Error", "Raised"} /\ pc' # pc) => pc = "LoadAudio"
        /\ (pc = "DetectVoiceActivity" /\ pc' # pc) => pc' = "TranscribeWords"
        /\ (pc = "TranscribeWords" /\ pc' # pc) => pc' = "ExtractFeatures"
        /\ (pc = "ExtractFeatures" /\ pc' # pc) => pc' = "Score"
        /\ (pc = "Score" /\ pc' # pc) => pc' = "Done" ]_vars

\* C9: with prosody enabled Prosody_Score = 0.5*score(F0_IQR) + 0.5*score(RMS_IQR)
\* and Fluency = 0.70*Timing_Score + 0.30*Prosody_Score; with prosody disabled
\* Fluency = Timing_Score and Prosody_Score is None.
C9_Composition ==
    (entry = "process_one" /\ pc = "Done") =>
        IF use_prosody
        THEN /\ Len(result.Prosody_Score) = 1
             /\ result.Prosody_Score[1] * 100 =
                   50 * score_metric(result.F0_IQR, "F0_IQR")
                 + 50 * score_metric(result.RMS_IQR, "RMS_IQR")
             /\ result.Fluency * 100 =
                   70 * result.Timing_Score + 30 * result.Prosody_Score[1]
        ELSE /\ result.Fluency = result.Timing_Score
             /\ result.Prosody_Score = <<>>

C9_Witness ==
    /\ entry = "process_one" /\ pc = "Done" /\ use_prosody
    /\ result.Prosody_Score[1] # result.Timing_Score
    /\ score_metric(result.F0_IQR, "F0_IQR") # score_metric(result.RMS_IQR, "RMS_IQR")

\* C10: Timing_Score = 0.25*score(SR) + 0.20*score(AR) + 0.15*score(PR)
\* + 0.20*score(MLFR) + 0.10*score(LPF) + 0.10*score(RateSD), and the six
\* weights sum to 1.0.
C10_TimingWeights ==
    /\ TimingWeights.SR + TimingWeights.AR + TimingWeights.PR
         + TimingWeights.MLFR + TimingWeights.LPF + TimingWeights.RateSD = 100
    /\ (entry = "process_one" /\ pc = "Done") =>
          result.Timing_Score * 100 =
              25 * score_metric(result.SR, "SR") + 20 * score_metric(result.AR, "AR")
            + 15 * score_metric(result.PR, "PR") + 20 * score_metric(result.MLFR, "MLFR")
            + 10 * score_metric(result.LPF, "LPF") + 10 * score_metric(result.RateSD, "RateSD")

C10_Witness ==
    /\ entry = "process_one" /\ pc = "Done"
    /\ score_metric(result.MLFR, "MLFR") # score_metric(result.LPF, "LPF")
    /\ score_metric(result.SR, "SR") # score_metric(result.AR, "AR")

\* ==================================================================
\* Direct calls of the pure functions
\* ==================================================================
\* no evaluation in progress: every variable of process_one at its initial value
OrchestratorIdle(name) ==
    /\ entry = name
    /\ pc = "Start"
    /\ audio = "valid"
    /\ use_prosody = FALSE
    /\ long_pause_sec = DefaultLongPauseMs
    /\ mlfr_pause_sec = DefaultMlfrPauseMs
    /\ total = 0
    /\ speech = <<>>
    /\ silences = <<>>
    /\ t_speech = 0
    /\ pr = Zero
    /\ words_clean = <<>>
    /\ n_words = 0
    /\ feats = NoFeats
    /\ bound = {}
    /\ called = {}
    /\ failed = {}
    /\ exc = ""
    /\ result = NoResult

\* a caller that invokes the function `name` alone: process_one is not running
FnIdle(name) ==
    /\ OrchestratorIdle(name)
    /\ requests = <<>>
    /\ tmp_dir = <<>>
    /\ fn_out = <<>>

\* the call of `name` returns `value`
FnReturn(name, value) ==
    /\ pc = "Start"
    /\ entry = name
    /\ fn_out' = value
    /\ pc' = "Done"
    /\ UNCHANGED <<entry, audio, use_prosody, long_pause_sec, mlfr_pause_sec,
                   total, speech, silences, t_speech, pr, words_clean, n_words, feats,
                   bound, called, failed, exc, result, fn_in>>
    /\ UNCHANGED apivars

FnDone(name) == entry = name /\ pc = "Done"

\* ------------------------------------------------------------------
\* score_metric(value, metric_name)
\* ------------------------------------------------------------------
MaxScoreValue == 200

MetricNames == {"SR", "AR", "PR", "MLFR", "LPF", "RateSD", "F0_IQR", "RMS_IQR", "Unknown"}

\* the literals score_metric compares with, in thousandths
Breakpoints(name) ==
    CASE name = "SR"      -> {80000, 100000, 120000, 140000, 160000}
      [] name = "AR"      -> {100000, 120000, 140000, 160000, 180000}
      [] name = "PR"      -> {100, 150, 250, 300, 350, 400, 500}
      [] name = "MLFR"    -> {3000, 5000, 6000, 8000, 10000}
      [] name = "LPF"     -> {2000, 3000, 4000, 5000, 7000}
      [] name = "RateSD"  -> {30000, 40000, 50000, 65000, 80000}
      [] name = "F0_IQR"  -> {20000, 30000, 40000, 80000, 90000, 100000}
      [] name = "RMS_IQR" -> {5000, 6000, 8000, 15000, 18000, 20000}
      [] OTHER            -> {}

\* values passed to score_metric, in thousandths: each literal, its two
\* neighbours, and an even grid from below zero to MaxScoreValue
\* (steps of 1 for the rates and counts, of 0.01 for the pause ratio)
ScoreGrid(name) ==
    { b + k : b \in Breakpoints(name), k \in {-1, 0, 1} }
    \cup { n * (IF name = "PR" THEN 10 ELSE 1000) : n \in -5..MaxScoreValue }

\* a standard deviation arrives as a square root
ScoreInputs ==
    UNION { { [name |-> m, milli |-> x, root |-> FALSE] : x \in ScoreGrid(m) } : m \in MetricNames } \cup
    { [name |-> "RateSD", milli |-> n * 1000, root |-> TRUE] : n \in 0..100 }

ValueOf(in) ==
    IF in.root
    THEN Root((in.milli \div 1000) * (in.milli \div 1000), 1)
    ELSE Rat(in.milli, 1000)

ScoreInit ==
    /\ FnIdle("score_metric")
    /\ fn_in \in ScoreInputs

ScoreMetricCall ==
    FnReturn("score_metric", score_metric(ValueOf(fn_in), fn_in.name))

ScoreNext == ScoreMetricCall

ScoreSpec == ScoreInit /\ [][ScoreNext]_vars

\* process_one, evaluate_fluency or score_metric is called
RangeInit == Init \/ ScoreInit

RangeNext == Next \/ ScoreMetricCall

RangeSpec == RangeInit /\ [][RangeNext]_vars

\* C11: score_metric returns a value in [0,1] for every metric name (unknown
\* names included) and every value (negative values included); every returned
\* record has Timing_Score and Fluency in [0,1] and Prosody_Score in [0,1] or absent.
C11_ScoresInRange ==
    /\ FnDone("score_metric") => fn_out \in 0..100000
    /\ (entry \in {"process_one", "evaluate_fluency"} /\ Returned) =>
          /\ "Fluency" \in DOMAIN result
          /\ result.Fluency \in 0..100000
          /\ "Timing_Score" \in DOMAIN result
          /\ result.Timing_Score \in 0..100000
          /\ \/ "Prosody_Score" \notin DOMAIN result
             \/ result.Prosody_Score = <<>>
             \/ result.Prosody_Score[1] \in 0..100000

\* C13: LPF and RateSD use inclusive upper bounds from the top:
\* RateSD <=30 1.0, <=40 0.8, <=50 0.6, <=65 0.4, <=80 0.2, else 0.1;
\* LPF <=2 1.0, <=3 0.8, <=4 0.6, <=5 0.4, <=7 0.2, else 0.1.
C13_LowerIsBetterLadders ==
    FnDone("score_metric") =>
        LET x == fn_in.milli IN
        /\ (fn_in.name = "RateSD") =>
              fn_out = (IF x <= 30000 THEN 100000 ELSE IF x <= 40000 THEN 80000
                        ELSE IF x <= 50000 THEN 60000 ELSE IF x <= 65000 THEN 40000
                        ELSE IF x <= 80000 THEN 20000 ELSE 10000)
        /\ (fn_in.name = "LPF") =>
              fn_out = (IF x <= 2000 THEN 100000 ELSE IF x <= 3000 THEN 80000
                        ELSE IF x <= 4000 THEN 60000 ELSE IF x <= 5000 THEN 40000
                        ELSE IF x <= 7000 THEN 20000 ELSE 10000)

C13_Witness ==
    /\ FnDone("score_metric") /\ fn_in.name = "RateSD" /\ fn_in.milli = 31000
    /\ fn_out = 80000 /\ ~fn_in.root

\* C14: SR, AR and MLFR use inclusive lower bounds from the top:
\* SR >=160 1.0, >=140 0.9, >=120 0.7, >=100 0.5, >=80 0.3, else 0.1;
\* AR >=180 1.0, >=160 0.9, >=140 0.7, >=120 0.5, >=100 0.3, else 0.1;
\* MLFR >=10 1.0, >=8 0.8, >=6 0.6, >=5 0.4, >=3 0.2, else 0.1.
C14_HigherIsBetterLadders ==
    FnDone("score_metric") =>
        LET x == fn_in.milli IN
        /\ (fn_in.name = "SR") =>
              fn_out = (IF x >= 160000 THEN 100000 ELSE IF x >= 140000 THEN 90000
                        ELSE IF x >= 120000 THEN 70000 ELSE IF x >= 100000 THEN 50000
                        ELSE IF x >= 80000 THEN 30000 ELSE 10000)
        /\ (fn_in.name = "AR") =>
              fn_out = (IF x >= 180000 THEN 100000 ELSE IF x >= 160000 THEN 90000
                        ELSE IF x >= 140000 THEN 70000 ELSE IF x >= 120000 THEN 50000
                        ELSE IF x >= 100000 THEN 30000 ELSE 10000)
        /\ (fn_in.name = "MLFR") =>
              fn_out = (IF x >= 10000 THEN 100000 ELSE IF x >= 8000 THEN 80000
                        ELSE IF x >= 6000 THEN 60000 ELSE IF x >= 5000 THEN 40000
                        ELSE IF x >= 3000 THEN 20000 ELSE 10000)

C14_Witness ==
    FnDone("score_metric") /\ fn_in.name = "AR" /\ fn_in.milli = 160000 /\ fn_out = 90000

\* C15: the band features put every value in exactly one band, the boundary
\* belonging to the better band:
\* PR [0.15,0.25] 1.0; [0.10,0.15) or (0.25,0.30] 0.8; (0.30,0.35] 0.6;
\*    (0.35,0.40] 0.4; (0.40,0.50] 0.2; else 0.1;
\* F0_IQR [40,80] 1.0; [30,40) or (80,90] 0.7; [20,30) or (90,100] 0.5; else 0.3;
\* RMS_IQR [8,15] 1.0; [6,8) or (15,18] 0.7; [5,6) or (18,20] 0.5; else 0.3.
C15_Bands ==
    FnDone("score_metric") =>
        LET x == fn_in.milli IN
        /\ (fn_in.name = "PR") =>
              fn_out = (IF 150 <= x /\ x <= 250 THEN 100000
                        ELSE IF (100 <= x /\ x < 150) \/ (250 < x /\ x <= 300) THEN 80000
                        ELSE IF 300 < x /\ x <= 350 THEN 60000
                        ELSE IF 350 < x /\ x <= 400 THEN 40000
                        ELSE IF 400 < x /\ x <= 500 THEN 20000
                        ELSE 10000)
        /\ (fn_in.name = "F0_IQR") =>
              fn_out = (IF 40000 <= x /\ x <= 80000 THEN 100000
                        ELSE IF (30000 <= x /\ x < 40000) \/ (80000 < x /\ x <= 90000) THEN 70000
                        ELSE IF (20000 <= x /\ x < 30000) \/ (90000 < x /\ x <= 100000) THEN 50000
                        ELSE 30000)
        /\ (fn_in.name = "RMS_IQR") =>
              fn_out = (IF 8000 <= x /\ x <= 15000 THEN 100000
                        ELSE IF (6000 <= x /\ x < 8000) \/ (15000 < x /\ x <= 18000) THEN 70000
                        ELSE IF (5000 <= x /\ x < 6000) \/ (18000 < x /\ x <= 20000) THEN 50000
                        ELSE 30000)

C15_Witness ==
    FnDone("score_metric") /\ fn_in.name = "PR" /\ fn_in.milli = 99 /\ fn_out = 10000

\* ------------------------------------------------------------------
\* level_from_score_new(s), called on two scores s1 <= s2
\* ------------------------------------------------------------------
MaxLevelTick == 22

LevelBoundaries == {30000, 50000, 75000}

\* scores in 1e-5 units: each boundary and its neighbours, and every 0.05
\* from -0.10 to above 1.0
LevelGrid ==
    { b + k : b \in LevelBoundaries, k \in {-1, 0, 1} } \cup
    { 5000 * n : n \in -2..MaxLevelTick }

LevelInit ==
    /\ FnIdle("level_from_score_new")
    /\ fn_in \in { <<s1, s2>> : s1 \in LevelGrid, s2 \in LevelGrid }
    /\ fn_in[1] <= fn_in[2]

LevelCall ==
    FnReturn("level_from_score_new",
             <<level_from_score_new(fn_in[1]), level_from_score_new(fn_in[2])>>)

LevelNext == LevelCall

LevelSpec == LevelInit /\ [][LevelNext]_vars

Levels == <<"Below Basic", "Basic", "Intermediate", "Advanced">>

LevelRank(l) == CHOOSE i \in 1..Len(Levels) : Levels[i] = l

\* C12: every score gets exactly one of the four levels; s >= 0.75 is
\* Advanced, 0.50 <= s < 0.75 Intermediate, 0.30 <= s < 0.50 Basic and
\* s < 0.30 Below Basic; a higher score never gets a lower level.
C12_LevelMapping ==
    FnDone("level_from_score_new") =>
        /\ \A i \in 1..2 :
              /\ \E r \in 1..Len(Levels) : fn_out[i] = Levels[r]
              /\ (fn_out[i] = "Advanced")     <=> (fn_in[i] >= 75000)
              /\ (fn_out[i] = "Intermediate") <=> (fn_in[i] >= 50000 /\ fn_in[i] < 75000)
              /\ (fn_out[i] = "Basic")        <=> (fn_in[i] >= 30000 /\ fn_in[i] < 50000)
              /\ (fn_out[i] = "Below Basic")  <=> (fn_in[i] < 30000)
        /\ LevelRank(fn_out[1]) <= LevelRank(fn_out[2])
        /\ fn_in[1] = 75000 => fn_out[1] = "Advanced"
        /\ fn_in[1] = 74999 => fn_out[1] = "Intermediate"
        /\ fn_in[1] = 0 => fn_out[1] = "Below Basic"

C12_Witness ==
    /\ FnDone("level_from_score_new")
    /\ fn_in = <<74999, 75000>>
    /\ fn_out = <<"Intermediate", "Advanced">>

\* ------------------------------------------------------------------
\* score_metric called on two values v1 <= v2 of one timing feature
\* ------------------------------------------------------------------
HigherIsBetter == {"SR", "AR", "MLFR"}

LowerIsBetter == {"PR", "LPF", "RateSD"}

\* thousandths: each literal of the branch, its two neighbours, a negative
\* value, zero, and a value above every literal
MonotoneGrid(name) ==
    { b + k : b \in Breakpoints(name), k \in {-1, 0, 1} } \cup {-1000, 0, 250000}

MonotoneInit ==
    /\ FnIdle("score_metric")
    /\ fn_in \in UNION { { [name |-> m, v1 |-> x, v2 |-> y] :
                             x \in MonotoneGrid(m), y \in MonotoneGrid(m) } :
                         m \in HigherIsBetter \cup LowerIsBetter }
    /\ fn_in.v1 <= fn_in.v2

MonotoneCall ==
    FnReturn("score_metric",
             <<score_metric(Rat(fn_in.v1, 1000), fn_in.name),
               score_metric(Rat(fn_in.v2, 1000), fn_in.name)>>)

MonotoneNext == MonotoneCall

MonotoneSpec == MonotoneInit /\ [][MonotoneNext]_vars

\* C16: for SR, AR and MLFR, v1 <= v2 implies score(v1) <= score(v2);
\* for PR, LPF and RateSD, v1 <= v2 implies score(v1) >= score(v2).
C16_SubScoresMonotone ==
    FnDone("score_metric") =>
        /\ fn_in.name \in HigherIsBetter => fn_out[1] <= fn_out[2]
        /\ fn_in.name \in LowerIsBetter => fn_out[1] >= fn_out[2]

\* C16 (amended): as above for SR, AR, MLFR, LPF and RateSD; for PR the
\* score is non-increasing only from 0.15 upward, and non-decreasing up
\* to 0.25.
C16_SubScoresMonotoneAmended ==
    FnDone("score_metric") =>
        /\ fn_in.name \in HigherIsBetter => fn_out[1] <= fn_out[2]
        /\ fn_in.name \in {"LPF", "RateSD"} => fn_out[1] >= fn_out[2]
        /\ (fn_in.name = "PR" /\ fn_in.v1 >= 150) => fn_out[1] >= fn_out[2]
        /\ (fn_in.name = "PR" /\ fn_in.v2 <= 250) => fn_out[1] <= fn_out[2]

C16_Witness ==
    /\ FnDone("score_metric")
    /\ fn_in = [name |-> "PR", v1 |-> 150, v2 |-> 251]
    /\ fn_out = <<100000, 80000>>

\* ------------------------------------------------------------------
\* Pause ratio of a clip the speech intervals cover
\* ------------------------------------------------------------------
\* no instant between the start of the first interval and the end of the
\* last one is outside every interval
Contiguous(segs) == \A i \in 1..(Len(segs) - 1) : segs[i + 1][1] <= segs[i][2]

\* the intervals leave no instant of [0, total_] uncovered
Covers(segs, total_) ==
    /\ segs # <<>>
    /\ segs[1][1] <= 0
    /\ segs[Len(segs)][2] >= total_
    /\ Contiguous(segs)

\* the intervals cover [0, total_] and nothing else
CoversExactly(segs, total_) ==
    /\ Covers(segs, total_)
    /\ segs[1][1] = 0
    /\ segs[Len(segs)][2] = total_

VadReturned == entry = "process_one" /\ "speech" \in bound

\* C17: when the duration is positive and the intervals the segmenter
\* returned cover [0, T], the pause ratio the orchestrator computes, and
\* the PR it returns, is exactly 0.
C17_FullCoverZeroPause ==
    (VadReturned /\ total > 0 /\ Covers(speech, total)) =>
        /\ IsZero(pr)
        /\ (pc = "Done" => IsZero(result.PR))

\* C17 (amended): as above when the intervals cover [0, T] and nothing
\* outside it.
C17_ExactCoverZeroPause ==
    (VadReturned /\ total > 0 /\ CoversExactly(speech, total)) =>
        /\ IsZero(pr)
        /\ (pc = "Done" => IsZero(result.PR))

C17_Witness ==
    /\ VadReturned
    /\ pc = "Done"
    /\ total = 1000
    /\ speech = <<<<0, 1000>>>>
    /\ IsZero(result.PR)

\* ------------------------------------------------------------------
\* silences_from_speech(segs, total) on a grid of whole time units
\* ------------------------------------------------------------------
MaxT == 5

MaxSegs == 2

\* instants an interval may start or end at: from 0 to beyond MaxT
Instants == 0..(MaxT + 1)

Intervals == { <<s, e>> : s \in Instants, e \in Instants } \ { <<s, e>> \in Instants \X Instants : s >= e }

\* sorted and non-overlapping: each interval starts at or after the end of the one before
SortedDisjoint(segs) == \A i \in 1..(Len(segs) - 1) : segs[i][2] <= segs[i + 1][1]

SpeechLists ==
    { segs \in UNION { [1..n -> Intervals] : n \in 0..MaxSegs } : SortedDisjoint(segs) }

SilencesInit ==
    /\ FnIdle("silences_from_speech")
    /\ fn_in \in { [segs |-> sp, total |-> t] : sp \in SpeechLists, t \in 0..MaxT }

SilencesCall ==
    FnReturn("silences_from_speech", silences_from_speech(fn_in.segs, fn_in.total))

SilencesNext == SilencesCall

SilencesSpec == SilencesInit /\ [][SilencesNext]_vars

\* every interval of segs lies within [0, total_]
Within(segs, total_) == \A i \in 1..Len(segs) : segs[i][1] >= 0 /\ segs[i][2] <= total_

\* the number of intervals of segs that contain the unit [k, k + 1]
CoverCount(segs, k) ==
    Cardinality({ i \in 1..Len(segs) : segs[i][1] <= k /\ k + 1 <= segs[i][2] })

\* the gaps the claim names, as a set
NamedGaps(segs, total_) ==
    IF segs = <<>> THEN { <<0, total_>> }
    ELSE (IF segs[1][1] > 0 THEN { <<0, segs[1][1]>> } ELSE {})
         \cup { <<segs[i][2], segs[i + 1][1]>> : i \in { j \in 1..(Len(segs) - 1) : segs[j + 1][1] > segs[j][2] } }
         \cup (IF segs[Len(segs)][2] < total_ THEN { <<segs[Len(segs)][2], total_>> } ELSE {})

\* sil and segs together cover every unit of [0, total_] once and no unit outside it
Reconstructs(segs, sil, total_) ==
    /\ { sil[i] : i \in 1..Len(sil) } = NamedGaps(segs, total_)
    /\ Cardinality(NamedGaps(segs, total_)) = Len(sil)
    /\ SortedDisjoint(sil)
    /\ \A k \in (-1)..(MaxT + 2) :
          CoverCount(segs, k) + CoverCount(sil, k) = (IF 0 <= k /\ k < total_ THEN 1 ELSE 0)
    /\ segs = <<>> => sil = << <<0, total_>> >>

\* C18: for every T and every sorted, non-overlapping speech list, the
\* silences are the leading gap, the gaps between consecutive intervals
\* and the trailing gap; silences and speech overlap nowhere, leave
\* nothing of [0, T] uncovered and cover nothing outside [0, T]; the empty
\* list gives the single silence (0, T).
C18_SilencesReconstruct ==
    FnDone("silences_from_speech") => Reconstructs(fn_in.segs, fn_out, fn_in.total)

\* C18 (amended): as above for every speech list that lies within [0, T].
C18_SilencesReconstructWithin ==
    (FnDone("silences_from_speech") /\ Within(fn_in.segs, fn_in.total)) =>
        Reconstructs(fn_in.segs, fn_out, fn_in.total)

C18_Witness ==
    /\ FnDone("silences_from_speech")
    /\ fn_in = [segs |-> << <<1, 2>>, <<3, 4>> >>, total |-> 5]
    /\ fn_out = << <<0, 1>>, <<2, 3>>, <<4, 5>> >>

\* ------------------------------------------------------------------
\* The sort-and-merge pass of run_pyannote_vad, applied twice
\* ------------------------------------------------------------------
MaxRegions == 3

\* ms; 100 -> 249 is a gap just under MergeGapMs, 100 -> 250 a gap equal to it
RegionInstants == {0, 100, 249, 250, 400, 600}

Regions == { <<s, e>> \in RegionInstants \X RegionInstants : s < e }

\* the detector's regions in any order, overlapping or not
RegionLists == UNION { [1..n -> Regions] : n \in 0..MaxRegions }

MergeInit ==
    /\ FnIdle("run_pyannote_vad")
    /\ fn_in \in RegionLists

\* the pass on the regions, then the pass on what it returned
MergeTwice ==
    FnReturn("run_pyannote_vad",
             <<run_pyannote_vad(fn_in), run_pyannote_vad(run_pyannote_vad(fn_in))>>)

MergeNext == MergeTwice

MergeSpec == MergeInit /\ [][MergeNext]_vars

\* C19: for every list of detector regions, the sort-and-merge pass
\* applied to its own output returns the same sequence of intervals.
C19_MergeIdempotent ==
    FnDone("run_pyannote_vad") => fn_out[2] = fn_out[1]

C19_Witness ==
    /\ FnDone("run_pyannote_vad")
    /\ fn_in = << <<400, 600>>, <<0, 100>>, <<100, 249>> >>
    /\ fn_out = << << <<0, 249>>, <<400, 600>> >>, << <<0, 249>>, <<400, 600>> >> >>

\* ------------------------------------------------------------------
\* mlfr(words, pause_thr)
\* ------------------------------------------------------------------
MaxMlfrWords == 3

\* ms, multiples of 1/8 s: "a" and "e" start together, "d" overlaps "a"
\* and "b", "c" starts 250 after "a" ends and 125 after "b" ends
MlfrWordPool ==
    { [text |-> "a", start |-> 0,   end |-> 250],
      [text |-> "b", start |-> 250, end |-> 375],
      [text |-> "c", start |-> 500, end |-> 625],
      [text |-> "d", start |-> 125, end |-> 500],
      [text |-> "e", start |-> 0,   end |-> 125],
      [text |-> "f", start |-> 875, end |-> 1000] }

\* the words in any order
MlfrWordLists == UNION { [1..n -> MlfrWordPool] : n \in 0..MaxMlfrWords }

MlfrThresholds == {0, 125, DefaultMlfrPauseMs}

MlfrInit ==
    /\ FnIdle("mlfr")
    /\ fn_in \in { [words |-> ws, pause_thr |-> thr] : ws \in MlfrWordLists, thr \in MlfrThresholds }

MlfrCall == FnReturn("mlfr", mlfr(fn_in.words, fn_in.pause_thr))

MlfrNext == MlfrCall

MlfrSpec == MlfrInit /\ [][MlfrNext]_vars

\* the number of words, taken in order of start, that begin pause_thr or
\* more after the end of the word before them (an overlap is a gap of 0)
SplitCount(words, pause_thr) ==
    LET ws == SortWords(words)
    IN  Cardinality({ i \in 2..Len(ws) :
                        (IF ws[i].start > ws[i - 1].end THEN ws[i].start - ws[i - 1].end ELSE 0)
                            >= pause_thr })

\* C20: mlfr returns len(words) / (1 + number of gaps >= pause_thr
\* between words consecutive in order of start, a gap equal to the
\* threshold included and an overlap counted as a gap of 0); a non-empty
\* list without such a gap returns len(words), the empty list returns 0.
C20_MeanRunLength ==
    FnDone("mlfr") =>
        /\ fn_in.words = <<>> => fn_out = Zero
        /\ fn_in.words # <<>> =>
              /\ fn_out = Rat(Len(fn_in.words), 1 + SplitCount(fn_in.words, fn_in.pause_thr))
              /\ SplitCount(fn_in.words, fn_in.pause_thr) = 0 => fn_out = Rat(Len(fn_in.words), 1)

C20_Witness ==
    /\ FnDone("mlfr")
    /\ fn_in = [words |-> << [text |-> "c", start |-> 500, end |-> 625],
                            [text |-> "a", start |-> 0, end |-> 250] >>,
                pause_thr |-> 250]
    /\ fn_out = Rat(2, 2)

\* ==================================================================
\* The /fluency request handler (GPU backend)
\* ==================================================================
RequestIds == {1, 2}

\* audio.filename as the client sent it; no directory /tmp/missing_dir exists
FileNames == {"a.wav", "b.wav", "missing_dir/c.wav"}

ContentTypes == {"audio/wav", "text/plain"}

\* content_type.startswith("audio/")
IsAudio(content_type) == content_type = "audio/wav"

\* open(tmp_path, "wb") succeeds
Creatable(filename) == filename # "missing_dir/c.wav"

\* the bytes request r uploaded
Upload(r) == <<"bytes", r>>

Absent == <<"absent">>

Empty == <<"empty">>

NewRequest(filename, content_type) ==
    [pc           |-> "Received",
     filename     |-> filename,
     content_type |-> content_type,
     handle       |-> "none",      \* none, linked (to the path), orphan (path unlinked since)
     evaluated    |-> <<>>,        \* what evaluate_fluency found at tmp_path
     cleanup      |-> "not_run",   \* not_run, removed, raised
     exc          |-> ""]

ApiInit ==
    /\ OrchestratorIdle("fluency")
    /\ fn_in = <<>>
    /\ fn_out = <<>>
    /\ requests \in [RequestIds -> { NewRequest(f, c) : f \in FileNames, c \in ContentTypes }]
    /\ tmp_dir = [f \in FileNames |-> Absent]

ApiUnchanged ==
    UNCHANGED <<entry, pc, audio, use_prosody, long_pause_sec, mlfr_pause_sec,
                total, speech, silences, t_speech, pr, words_clean, n_words, feats,
                bound, called, failed, exc, result, fn_in, fn_out>>

\* the content type is refused: HTTPException(400) before tmp_path is used
Reject(r) ==
    /\ requests[r].pc = "Received"
    /\ ~IsAudio(requests[r].content_type)
    /\ requests' = [requests EXCEPT ![r].pc = "Raised", ![r].exc = "HTTPException"]
    /\ UNCHANGED tmp_dir
    /\ ApiUnchanged

\* open(tmp_path, "wb") raises; the finally clause runs os.remove(tmp_path)
\* on a path that does not exist, which raises in turn
OpenFails(r) ==
    /\ requests[r].pc = "Received"
    /\ IsAudio(requests[r].content_type)
    /\ ~Creatable(requests[r].filename)
    /\ requests' = [requests EXCEPT ![r].pc = "Raised", ![r].cleanup = "raised",
                                    ![r].exc = "FileNotFoundError"]
    /\ UNCHANGED tmp_dir
    /\ ApiUnchanged

\* open(tmp_path, "wb") creates or truncates the file; the handler then
\* suspends in "await audio.read()"
OpenAndAwait(r) ==
    /\ requests[r].pc = "Received"
    /\ IsAudio(requests[r].content_type)
    /\ Creatable(requests[r].filename)
    /\ tmp_dir' = [tmp_dir EXCEPT ![requests[r].filename] = Empty]
    /\ requests' = [requests EXCEPT ![r].pc = "Reading", ![r].handle = "linked"]
    /\ ApiUnchanged

\* the rest of the handler, which has no further suspension point:
\* f.write, close, evaluate_fluency(tmp_path), os.remove(tmp_path), return
WriteEvaluateRemove(r) ==
    /\ requests[r].pc = "Reading"
    /\ \E eval_raises \in BOOLEAN :
          LET name    == requests[r].filename
              written == IF requests[r].handle = "linked" THEN Upload(r) ELSE tmp_dir[name]
              gone    == written = Absent
              unlink(q) == IF q # r /\ requests[q].filename = name /\ requests[q].handle = "linked"
                           THEN [requests[q] EXCEPT !.handle = "orphan"]
                           ELSE requests[q]
          IN  /\ tmp_dir' = [tmp_dir EXCEPT ![name] = Absent]
              /\ requests' =
                    [q \in RequestIds |->
                        IF q = r
                        THEN [requests[r] EXCEPT
                                 !.evaluated = written,
                                 !.handle    = "none",
                                 !.cleanup   = IF gone THEN "raised" ELSE "removed",
                                 !.pc        = IF gone \/ eval_raises THEN "Raised" ELSE "Returned",
                                 !.exc       = IF gone THEN "FileNotFoundError"
                                               ELSE IF eval_raises THEN "EvaluationError" ELSE ""]
                        ELSE IF gone THEN requests[q] ELSE unlink(q)]
    /\ ApiUnchanged

ApiNext ==
    \E r \in RequestIds :
        \/ Reject(r)
        \/ OpenFails(r)
        \/ OpenAndAwait(r)
        \/ WriteEvaluateRemove(r)

ApiSpec == ApiInit /\ [][ApiNext]_vars

\* request r got past the content-type check and its file could be created
Accepted(r) == IsAudio(requests[r].content_type) /\ Creatable(requests[r].filename)

Finished(r) == requests[r].pc \in {"Returned", "Raised"}

\* C21: for any interleaving of two requests, each request evaluates its
\* own upload, its temporary file is not deleted by the other request
\* while in use, and it does not end in an error the other request caused.
C21_RequestsIndependent ==
    \A r \in RequestIds :
        Accepted(r) =>
            /\ requests[r].handle # "orphan"
            /\ requests[r].evaluated \in {<<>>, Upload(r)}
            /\ requests[r].exc # "FileNotFoundError"

\* C22: once the handler has returned or raised, the temporary file no
\* longer exists, and the cleanup step has not raised, also when the
\* file could not be created.
C22_TempFileReleased ==
    \A r \in RequestIds :
        (Finished(r) /\ IsAudio(requests[r].content_type)) =>
            /\ requests[r].cleanup # "raised"
            /\ (\A q \in RequestIds : q # r => requests[q].pc = "Received")
                  => tmp_dir[requests[r].filename] = Absent

\* ------------------------------------------------------------------
\* What the sort-and-merge pass of run_pyannote_vad returns
\* ------------------------------------------------------------------
\* sorted by start, adjacent intervals at least MergeGapMs apart
SortedAndSeparated(segs) ==
    \A i \in 1..(Len(segs) - 1) :
        /\ segs[i][1] < segs[i + 1][1]
        /\ segs[i + 1][1] - segs[i][2] >= MergeGapMs

\* every region lies in an interval of segs, and every interval of segs
\* starts where a region starts and ends where a region ends
GroupsRegions(regions, segs) ==
    /\ \A i \in 1..Len(regions) :
          \E j \in 1..Len(segs) : segs[j][1] <= regions[i][1] /\ regions[i][2] <= segs[j][2]
    /\ \A j \in 1..Len(segs) :
          /\ \E i \in 1..Len(regions) : regions[i][1] = segs[j][1]
          /\ \E i \in 1..Len(regions) : regions[i][2] = segs[j][2]

\* no interval of segs spans a stretch of MergeGapMs or more that no region touches
NothingBridged(regions, segs) ==
    \A j \in 1..Len(segs) :
        \A a \in RegionInstants : \A b \in RegionInstants :
            (segs[j][1] < a /\ b < segs[j][2] /\ b - a >= MergeGapMs) =>
                \E i \in 1..Len(regions) : regions[i][1] < b /\ regions[i][2] > a

\* C23: the list the segmenter returns is sorted by start, and adjacent
\* intervals do not overlap and are >= 0.15 s apart; regions less than
\* 0.15 s apart are merged into one interval that ends at the larger of
\* their ends, regions exactly 0.15 s apart are kept separate, also when
\* three or more regions chain.
C23_MergedIntervals ==
    FnDone("run_pyannote_vad") =>
        /\ SortedAndSeparated(fn_out[1])
        /\ GroupsRegions(fn_in, fn_out[1])
        /\ NothingBridged(fn_in, fn_out[1])

C23_Witness ==
    /\ FnDone("run_pyannote_vad")
    /\ fn_in = << <<0, 100>>, <<249, 250>>, <<400, 600>> >>
    /\ fn_out[1] = << <<0, 250>>, <<400, 600>> >>

\* ------------------------------------------------------------------
\* Long-pause frequency of the returned record
\* ------------------------------------------------------------------
\* the silences of length >= min_long
LongPauses(sil, min_long) == { i \in 1..Len(sil) : sil[i][2] - sil[i][1] >= min_long }

\* v = count / (total_ / 60 s), with total_ in ms
IsPerMinute(v, count, total_) == ~v.root /\ v.n * total_ = count * 60000 * v.d

\* C24: when the duration is positive, the LPF of the returned record is
\* the number of derived silences of length >= long_pause_sec divided by
\* the duration in minutes, whatever the number of recognised words.
C24_LongPauseFrequency ==
    (entry = "process_one" /\ pc = "Done" /\ total > 0 /\ "silences" \in bound) =>
        IsPerMinute(result.LPF, Cardinality(LongPauses(silences, long_pause_sec)), total)

\* ------------------------------------------------------------------
\* rate_stability(words, window_sec = 5.0)
\* ------------------------------------------------------------------
MaxRateWords == 3

\* ms; "long" straddles the first window boundary
RateWordPool ==
    { [text |-> "one",   start |-> 0,     end |-> 250],
      [text |-> "long",  start |-> 4000,  end |-> 5250],
      [text |-> "two",   start |-> 5500,  end |-> 5875],
      [text |-> "three", start |-> 11000, end |-> 11250] }

\* the words in any order
RateWordLists == UNION { [1..n -> RateWordPool] : n \in 0..MaxRateWords }

\* the word counts c of the windows the loop visits; none when the function returns early
rate_stability_counts(words, window) ==
    IF words = <<>> THEN <<>>
    ELSE LET t0 == words[1].start
             t1 == MaxEnd(words)
         IN  IF t1 - t0 < window THEN <<>>
             ELSE WindowCounts(words, t0, window, 0, NumBins(t0, t1, window) - 1, 0)

RateInit ==
    /\ FnIdle("rate_stability")
    /\ fn_in \in RateWordLists

RateCall ==
    FnReturn("rate_stability",
             [counts |-> rate_stability_counts(fn_in, WindowMs),
              value  |-> rate_stability(fn_in, WindowMs)])

RateNext == RateCall

RateSpec == RateInit /\ [][RateNext]_vars

\* the words whose interval overlaps the window [s, e)
Overlapping(words, s, e) == { i \in 1..Len(words) : words[i].start < e /\ words[i].end > s }

\* C25: the count used for each 5 s window, from the first word's start
\* on, is the number of words whose interval overlaps the window, for
\* every word list; the result is 0 when the span is shorter than one
\* window or fewer than two windows exist.
C25_WindowCounts ==
    FnDone("rate_stability") =>
        /\ \A b \in 1..Len(fn_out.counts) :
              fn_out.counts[b] =
                  Cardinality(Overlapping(fn_in, fn_in[1].start + (b - 1) * WindowMs,
                                          fn_in[1].start + b * WindowMs))
        /\ Len(fn_out.counts) < 2 => fn_out.value = Zero

\* ------------------------------------------------------------------
\* Level and Fluency of the returned records
\* ------------------------------------------------------------------
\* a record has been returned to the caller
HasRecord == result # NoResult

\* C26: in every returned record (scoring path, empty-audio path, and
\* the fixed record of evaluate_fluency) Level is level_from_score_new
\* of the record's Fluency.
C26_LevelMatchesFluency ==
    HasRecord => result.Level = level_from_score_new(result.Fluency)

C26_Witness ==
    /\ entry = "process_one" /\ pc = "Done" /\ use_prosody
    /\ result.Level = "Basic"
    /\ level_from_score_new(result.Timing_Score) = "Below Basic"

\* ------------------------------------------------------------------
\* Records of evaluations in which no word was recognised
\* ------------------------------------------------------------------
NoWordsNoProsody ==
    entry = "process_one" /\ pc = "Done" /\ result.N_words = 0 /\ ~use_prosody

\* C27: with no recognised word and prosody disabled the SR, AR and MLFR
\* sub-scores are 0.1, the LPF and RateSD sub-scores are 1.0,
\* Timing_Score = 0.265 + 0.15*score(PR) <= 0.415, and the Level is
\* neither Intermediate nor Advanced.
C27_NoWordsCeiling ==
    NoWordsNoProsody =>
        /\ score_metric(result.SR, "SR") = 10000
        /\ score_metric(result.AR, "AR") = 10000
        /\ score_metric(result.MLFR, "MLFR") = 10000
        /\ score_metric(result.LPF, "LPF") = 100000
        /\ score_metric(result.RateSD, "RateSD") = 100000
        /\ result.Timing_Score * 100 = 2650000 + 15 * score_metric(result.PR, "PR")
        /\ result.Timing_Score <= 41500
        /\ result.Level \notin {"Intermediate", "Advanced"}

C27_Witness ==
    /\ NoWordsNoProsody
    /\ "asr" \in failed
    /\ Cardinality(LongPauses(silences, long_pause_sec)) > 0
    /\ result.Timing_Score = 41500
    /\ result.Level = "Basic"

\* ------------------------------------------------------------------
\* The floor of the scores
\* ------------------------------------------------------------------
\* process_one has returned the record of the scoring path
Scored == entry = "process_one" /\ pc = "Done"

TimingNames == {"SR", "AR", "PR", "MLFR", "LPF", "RateSD"}

\* C28: on the scoring path (duration non-zero) every sub-score is at
\* least 0.1 and so is Fluency; a record with Fluency = 0.0 comes from the
\* empty-audio return only and has Level "Below Basic".
C28_FluencyFloor ==
    /\ Scored =>
          /\ total # 0
          /\ \A m \in TimingNames : score_metric(result[m], m) >= 10000
          /\ use_prosody => \A m \in {"F0_IQR", "RMS_IQR"} : score_metric(result[m], m) >= 10000
          /\ result.Timing_Score >= 10000
          /\ result.Fluency >= 10000
    /\ (HasRecord /\ result.Fluency = 0) =>
          /\ entry = "process_one" /\ audio = "zero_frames" /\ total = 0
          /\ result = EmptyAudioResult
          /\ result.Level = "Below Basic"

C28_Witness ==
    /\ Scored
    /\ result.N_words > 0
    /\ result.Fluency < 30000
    /\ result.Level = "Below Basic"

\* ------------------------------------------------------------------
\* mlfr on a word list and on a permutation of it
\* ------------------------------------------------------------------
\* the rearrangements of 1..n
Shuffles(n) == { f \in [1..n -> 1..n] : \A i \in 1..n : \E j \in 1..n : f[j] = i }

Rearrangements(words) == { [i \in 1..Len(words) |-> words[f[i]]] : f \in Shuffles(Len(words)) }

PermutedInit ==
    /\ FnIdle("mlfr")
    /\ fn_in \in UNION { { [words |-> ws, permuted |-> p, pause_thr |-> thr] :
                             p \in Rearrangements(ws), thr \in MlfrThresholds } :
                         ws \in MlfrWordLists }

PermutedCall ==
    FnReturn("mlfr", <<mlfr(fn_in.words, fn_in.pause_thr), mlfr(fn_in.permuted, fn_in.pause_thr)>>)

PermutedNext == PermutedCall

PermutedSpec == PermutedInit /\ [][PermutedNext]_vars

\* words that start together also end together
TiesAgree(words) ==
    \A i \in 1..Len(words) : \A j \in 1..Len(words) :
        words[i].start = words[j].start => words[i].end = words[j].end

\* C29: for every word list, words with equal starts included, and every
\* permutation of it, mlfr returns the same value.
C29_OrderIndependent ==
    FnDone("mlfr") => fn_out[1] = fn_out[2]

\* C29 (amended): as above for every word list in which the words that
\* share a start time share their end time too.
C29_OrderIndependentTiesAgree ==
    (FnDone("mlfr") /\ TiesAgree(fn_in.words)) => fn_out[1] = fn_out[2]

C29_Witness ==
    /\ FnDone("mlfr")
    /\ fn_in.pause_thr = DefaultMlfrPauseMs
    /\ fn_in.words = << [text |-> "c", start |-> 500, end |-> 625],
                        [text |-> "a", start |-> 0, end |-> 250],
                        [text |-> "a", start |-> 0, end |-> 250] >>
    /\ fn_in.permuted = << [text |-> "a", start |-> 0, end |-> 250],
                           [text |-> "c", start |-> 500, end |-> 625],
                           [text |-> "a", start |-> 0, end |-> 250] >>
    /\ fn_out = <<Rat(3, 2), Rat(3, 2)>>

\* ------------------------------------------------------------------
\* Pause ratio and rates when the speech intervals lie within the clip
\* ------------------------------------------------------------------
\* process_one returned after a VAD stage that succeeded with intervals within [0, total]
ScoredWithinClip ==
    /\ Scored
    /\ "vad" \notin failed
    /\ total > 0
    /\ Within(speech, total)

\* a >= b for two rationals with positive denominators
RatGE(a, b) == a.n * b.d >= b.n * a.d

\* C30: when VAD succeeds on a clip with T > 0 and its intervals lie
\* within [0, T], the returned PR is in [0, 1] and AR >= SR; AR is 0 when
\* the speech time is 0.
C30_RatesWithinClip ==
    ScoredWithinClip =>
        /\ RatGE(result.PR, Zero) /\ RatGE(Rat(1, 1), result.PR)
        /\ RatGE(result.AR, result.SR)
        /\ t_speech = 0 => IsZero(result.AR)

\* C30 (amended): as above, with AR >= SR whenever the speech time is
\* positive.
C30_RatesWithinClipSpeech ==
    ScoredWithinClip =>
        /\ RatGE(result.PR, Zero) /\ RatGE(Rat(1, 1), result.PR)
        /\ t_speech > 0 => RatGE(result.AR, result.SR)
        /\ t_speech = 0 => IsZero(result.AR)

C30_Witness ==
    /\ ScoredWithinClip
    /\ t_speech > 0 /\ t_speech < total
    /\ result.N_words > 0
    /\ ~RatGE(result.SR, result.AR)

====
